---- MODULE Spec2Model ----
(***************************************************************************)
(* Model of the assistant conversation client (experimental_useAssistant)  *)
(* and of the producer session (experimental_AssistantResponse).           *)
(*                                                                         *)
(* Every top-level call of submitMessage / submitToolOutput is a task      *)
(* with a stack of frames; one frame is one submit call together with the  *)
(* handleIncomingResponse call it awaits.  A step of the model is the code *)
(* that runs between two await points of one task.                         *)
(***************************************************************************)
EXTENDS Naturals, Sequences, FiniteSets, TLC

\* ---------------------------------------------------------------- bounds
MaxCalls == 2    \* top-level submit calls in one run
MaxActive == 2   \* top-level submit calls in flight at the same time
MaxDepth == 2    \* frames on one task's stack (1 = no nested round trip)
MaxParts == 2    \* decoded parts delivered in one run, over all responses
MaxToolParts == 3  \* the same, in runs of tool round trips only (ToolSpec)
MaxSends == 3    \* events the producer callback sends

\* ---------------------------------------------------------- value domains
Undefined == "undefined"
ThreadIds == {"t1", "t2"}
MessageIds == {"m1"}
AssistantIds == {"a1"}
Inputs == {"", "hi"}
RequestData == {Undefined}
Contents == {<<>>, <<"hi", "yo">>}
DataIds == {Undefined}
ErrorTexts == {"e1"}
Outputs == {"r"}
ParamThreadIds == {Undefined, "tp"}

ToolCallA == [id |-> "c1", name |-> "lookup"]
ToolCallB == [id |-> "c2", name |-> "sum"]
ToolCallLists == {<<ToolCallA>>, <<ToolCallA, ToolCallB>>}
Payloads == {<<[tool_call_id |-> "c1", output |-> "r"]>>}

VARIABLES
  messages,       \* the messages store
  input,          \* the input store
  threadId,       \* the threadId store
  status,         \* the status store
  error,          \* the error store
  onToolCall,     \* TRUE iff the onToolCall option is defined
  threadIdParam,  \* the threadId option
  tasks,          \* the top-level calls in flight and their stacks of frames
  requests,       \* every fetch issued, in order
  nanoCount,      \* number of ids drawn from nanoid()
  ncalls,         \* number of top-level submit calls made so far
  partsRead,      \* number of parts delivered so far
  partsLimit,     \* number of parts the responses of this run deliver at most
  lastEvent,      \* what the last step did: the part read, the call ended
  toolLog,        \* one entry per tool_calls part processed
  pstream,        \* producer: chunks enqueued on the controller, in call order
  pqueue,         \* producer: chunks in the stream's queue, not yet read
  pread,          \* producer: chunks the reader of response.body has received
  pstate,         \* producer: state of the stream (readable, closed, errored)
  ppc,            \* producer: position inside start()
  pcloses,        \* producer: number of controller.close() calls
  pthrown,        \* producer: the controller calls that threw, in call order
  pcancelled,     \* producer: the reader has cancelled the stream
  psent,          \* producer: events the callback has sent, in call order
  pfailure,       \* producer: the reason the callback rejected with, if any
  psettings       \* producer: the {threadId, messageId} it was built with

cvars == <<messages, input, threadId, status, error, onToolCall,
           threadIdParam, tasks, requests, nanoCount, ncalls, partsRead, partsLimit, lastEvent,
           toolLog>>
pvars == <<pstream, pqueue, pread, pstate, ppc, pcloses,
          pthrown, pcancelled, psent, pfailure, psettings>>
vars == <<messages, input, threadId, status, error, onToolCall,
          threadIdParam, tasks, requests, nanoCount, ncalls, partsRead, partsLimit, lastEvent,
          toolLog, pstream, pqueue, pread, pstate, ppc, pcloses,
          pthrown, pcancelled, psent, pfailure, psettings>>

\* ------------------------------------------------------------ error values
\* A value held by the error store or thrown: its kind and its text.
NoError == [kind |-> "undefined", text |-> ""]
StringValue(s) == [kind |-> "string", text |-> s]
EmptyBodyError == [kind |-> "Error", text |-> "The response body is empty."]
\* readDataStream rejects on a line it cannot decode.
DecodeError == [kind |-> "Error", text |-> "Failed to parse stream string."]
\* value.content[0] is undefined for an empty content array.
ContentTypeError == [kind |-> "TypeError", text |-> "Cannot read properties of undefined (reading 'text')"]
\* messages[messages.length - 1] is undefined for an empty history.
LastMessageTypeError == [kind |-> "TypeError", text |-> "Cannot set properties of undefined (setting 'id')"]
\* Inside `catch (error)` the name error is the caught value, not the store.
SetTypeError == [kind |-> "TypeError", text |-> "error.set is not a function"]
\* fetch rejects when the request cannot be made or answered.
NetworkError == [kind |-> "TypeError", text |-> "fetch failed"]
HandlerError(name) == [kind |-> "Error", text |-> "tool failed: " \o name]
\* What a handler invocation rejects with: an Error, or no value at all
\* (Promise.reject() / throw undefined), which is the value undefined.
RejectionReason(name, nullish) == IF nullish THEN NoError ELSE HandlerError(name)

\* `catch (error) { error.set(error); }` of handleIncomingResponse: error is
\* the caught value, which has no set method, so the block throws and the
\* error store keeps its value.  The result is what the store holds after
\* the block and what the block throws (NoError: nothing).
OuterCatch(store, caught) == [store |-> store, throws |-> SetTypeError]

\* mutant: the catch block of the tool_calls case drops the failure
ToolCatch_Swallow(store, err) == store

\* `catch (err) { error.set(err); }` of the tool_calls case
ToolCatch(store, err) == err

\* mutant: threadId is bound once and kept
BindThreadId_WriteOnce(current, th) ==
  IF current = Undefined THEN th ELSE current

\* threadId.set(value.threadId)
BindThreadId(current, th) == th

\* mutant: the id of the first message is replaced
BackFill_First(msgs, mid) == [msgs EXCEPT ![1].id = mid]

\* mutant: the id goes to the first message that has none yet
BackFill_FirstEmpty(msgs, mid) ==
  LET es == {i \in 1..Len(msgs) : msgs[i].id = ""}
  IN IF es = {} THEN msgs
     ELSE [msgs EXCEPT ![CHOOSE i \in es : \A j \in es : i <= j].id = mid]

\* lastMessage.id = value.messageId;
\* [...messages.slice(0, messages.length - 1), lastMessage]
BackFill(msgs, mid) == [msgs EXCEPT ![Len(msgs)].id = mid]

\* ---------------------------------------------------------------- helpers
\* mutant: only the first name is reported
Join_FirstOnly(names) == IF Len(names) = 0 THEN "" ELSE names[1]

RECURSIVE Join(_)
\* Array.prototype.join(', ')
Join(names) ==
  IF Len(names) = 0 THEN ""
  ELSE IF Len(names) = 1 THEN names[1]
  ELSE names[1] \o ", " \o Join(Tail(names))

\* value.tool_calls.map(toolCall => toolCall.function.name)
Names(calls) == [i \in 1..Len(calls) |-> calls[i].name]

NoHandlerText(calls) ==
  "onToolCall is not defined for this assistant. Tool call names invoked "
    \o Join(Names(calls))

RECURSIVE StringifyItems(_)
StringifyItems(p) ==
  IF Len(p) = 0 THEN ""
  ELSE "{\"tool_call_id\":\"" \o p[1].tool_call_id \o "\",\"output\":\""
         \o p[1].output \o "\"}"
         \o (IF Len(p) > 1 THEN "," ELSE "") \o StringifyItems(Tail(p))

\* JSON.stringify(payload) for an array of {tool_call_id, output}
Stringify(p) == "[" \o StringifyItems(p) \o "]"

\* nanoid(): a fresh id per call
Nanoid(n) == "nanoid-" \o ToString(n)

\* threadIdParam ?? get(threadId) ?? null
RequestThreadId ==
  IF threadIdParam # Undefined THEN threadIdParam
  ELSE IF threadId # Undefined THEN threadId
  ELSE "null"

Message(id, role, content, data, calls) ==
  [id |-> id, role |-> role, content |-> content, data |-> data,
   tool_calls |-> calls]

NoPart == [type |-> "none"]

\* What a step did: the part it read (or NoPart), the task and the depth
\* of the frame that ran, and how a call ended in this step, if one did:
\* "returned"/"threw" for a call of depth 1 (to the caller of the submit
\* operation), "nested_returned"/"caught" for the orchestrator's call.
Event(part, t, depth, done, thrown) ==
  [part |-> part, task |-> t, depth |-> depth, done |-> done,
   thrown |-> thrown]
NoEvent == Event(NoPart, 0, 0, "none", NoError)

Pending == "pending"
DataValues == {"dv"}

\* One submit call that has issued its request: pc is "fetch" (awaiting
\* fetch), "loop" (awaiting the next decoded part), "handlers" (awaiting
\* Promise.all of the handler invocations) or "await_submit" (awaiting the
\* submitToolOutput call of the frame above).
\* Beside the position: own is the place in the history of the message the
\* submit call appended, solo tells (in the first frame of a task) that no
\* other top-level call was in flight since this one began, and parts are
\* the parts of its response processed so far.
Frame(op, own, solo) ==
  [op |-> op, pc |-> "fetch", calls |-> <<>>, outs |-> <<>>, tool |-> 0,
   own |-> own, solo |-> solo, parts |-> <<>>]

\* A processed part: the part, the length of the history after it was
\* processed and, for a tool_calls part whose outputs were submitted, the
\* length of the history when the nested submitToolOutput call had ended
\* (0: not yet).
Seen(part, at) == [part |-> part, at |-> at, resumed |-> 0]

\* A task is the stack of frames of one top-level call; <<>> when the slot
\* holds no call in flight.
Top(t) == tasks[t][Len(tasks[t])]
Depth(t) == Len(tasks[t])
At(t, pc) == Depth(t) > 0 /\ Top(t).pc = pc

ReplaceTop(stack, f) == [stack EXCEPT ![Len(stack)] = f]

\* the stacks after task t has processed part, the history then having
\* length at
AfterRead(t, part, at) ==
  [tasks EXCEPT ![t] =
     ReplaceTop(@, [Top(t) EXCEPT !.parts = Append(@, Seen(part, at))])]
Pop(stack) == SubSeq(stack, 1, Len(stack) - 1)

\* --------------------------------------------------- producer values
\* JSON texts of the values the callback sends
AssistantJsons == {"{\"id\":\"a1\",\"role\":\"assistant\",\"content\":[{\"text\":{\"value\":\"hi\"}}]}"}
DataJsons == {"{\"data\":\"dv\"}"}
ToolCallJsons == {"{\"tool_calls\":[{\"id\":\"c1\",\"function\":{\"name\":\"lookup\"}}]}"}

\* What the callback rejects with: an Error (message set), a value that
\* has no message property (str is its string conversion), or null /
\* undefined (nullish), of which no property can be read.
NoReason == [message |-> Undefined, str |-> "", nullish |-> FALSE]
\* the TypeError of a controller whose stream is no longer readable
ControllerClosed ==
  [message |-> "Invalid state: Controller is already closed",
   str |-> "TypeError [ERR_INVALID_STATE]: Invalid state: Controller is already closed",
   nullish |-> FALSE]
RejectReasons == {[message |-> "boom", str |-> "Error: boom", nullish |-> FALSE],
                  ControllerClosed,
                  [message |-> Undefined, str |-> "oops", nullish |-> FALSE],
                  [message |-> Undefined, str |-> "undefined", nullish |-> TRUE]}

\* JSON.stringify({threadId, messageId})
ControlJson(th, mid) ==
  "{\"threadId\":\"" \o th \o "\",\"messageId\":\"" \o mid \o "\"}"

\* JSON.stringify(errorMessage) of a string
StringJson(str) == "\"" \o str \o "\""

\* formatStreamPart(type, value): one line `<type-code>:<json-value>\n`
FormatStreamPart(type, json) == type \o ":" \o json \o "\n"

\* (error as any).message ?? `${error}`
ErrorMessage(reason) ==
  IF reason.message # Undefined THEN reason.message ELSE reason.str

\* The chunks enqueued once the catch block has run: reading .message of
\* null or undefined throws inside the block, before sendError is called.
AfterCatch(stream, reason) ==
  IF reason.nullish THEN stream
  ELSE Append(stream, FormatStreamPart("error", StringJson(ErrorMessage(reason))))

\* ----------------------------------------------------------------- Init
\* The stores and the producer right after construction.
Constructed ==
  /\ messages = <<>>
  /\ input = ""
  /\ threadId = Undefined
  /\ status = "awaiting_message"
  /\ error = NoError
  /\ tasks = [t \in 1..MaxActive |-> <<>>]
  /\ requests = <<>>
  /\ nanoCount = 0
  /\ ncalls = 0
  /\ partsRead = 0
  /\ lastEvent = NoEvent
  /\ toolLog = <<>>
  /\ pstream = <<>>
  /\ pqueue = <<>>
  /\ pread = <<>>
  /\ pstate = "readable"
  /\ ppc = "new"
  /\ pcloses = 0
  /\ pthrown = <<>>
  /\ pcancelled = FALSE
  /\ psent = <<>>
  /\ pfailure = NoReason
  /\ psettings = [threadId |-> Undefined, messageId |-> Undefined]

Init ==
  /\ Constructed
  /\ onToolCall \in BOOLEAN
  /\ threadIdParam \in ParamThreadIds
  /\ partsLimit = MaxParts

\* ------------------------------------------------- call and return
TaskIds == 1..MaxActive
FreeTasks == {t \in TaskIds : tasks[t] = <<>>}
FreeTask == CHOOSE t \in FreeTasks : \A u \in FreeTasks : t <= u
CanCall == ncalls < MaxCalls /\ FreeTasks # {}

\* The stack after the top frame's call has ended: the caller, if there is
\* one, is the tool_calls case, which goes on with `break`.
ReturnedStack(stack) ==
  IF Len(stack) = 1 THEN <<>>
  ELSE LET caller == stack[Len(stack) - 1]
       IN ReplaceTop(Pop(stack),
            [caller EXCEPT !.pc = "loop",
                           !.parts[Len(caller.parts)].resumed = Len(messages)])

\* mutant: the orchestrator's submitToolOutput call is outside the try
\* block, so a rejection unwinds the whole top-level call
Throw_Uncaught(t, part, err) ==
  /\ tasks' = [tasks EXCEPT ![t] = <<>>]
  /\ error' = error
  /\ lastEvent' = Event(part, t, Depth(t), "threw", err)

\* handleIncomingResponse of the top frame rejects with err.  The submit
\* call that awaits it has no handler and rejects too: a top-level call
\* rejects to its caller, a call made by the orchestrator is caught by
\* `catch (err) { error.set(err); }` of the tool_calls case.
Throw(t, part, err) ==
  /\ tasks' = [tasks EXCEPT ![t] = ReturnedStack(@)]
  /\ error' = IF Depth(t) = 1 THEN error ELSE ToolCatch(error, err)
  /\ lastEvent' = Event(part, t, Depth(t),
                        IF Depth(t) = 1 THEN "threw" ELSE "caught", err)

\* handleIncomingResponse of the top frame returns; the submit call sets
\* the status and returns.
Return(t) ==
  /\ status' = "awaiting_message"
  /\ tasks' = [tasks EXCEPT ![t] = ReturnedStack(@)]
  /\ lastEvent' = Event(NoPart, t, Depth(t),
                        IF Depth(t) = 1 THEN "returned" ELSE "nested_returned",
                        NoError)

\* A failure inside the try block of handleIncomingResponse: the catch
\* block runs; when it throws, handleIncomingResponse rejects, otherwise
\* it returns and the submit call ends normally.
Fail(t, part, caught) ==
  LET c == OuterCatch(error, caught)
  IN IF c.throws # NoError
     THEN /\ Throw(t, part, c.throws)
          /\ status' = status
     ELSE /\ error' = c.store
          /\ status' = "awaiting_message"
          /\ tasks' = [tasks EXCEPT ![t] = ReturnedStack(@)]
          /\ lastEvent' = Event(part, t, Depth(t),
                IF Depth(t) = 1 THEN "returned" ELSE "nested_returned",
                NoError)

\* The stacks after a top-level call has appended its message and issued
\* its request: it runs in the first free slot.
Started(op) ==
  [u \in TaskIds |->
     IF u = FreeTask THEN <<Frame(op, Len(messages) + 1, FreeTasks = TaskIds)>>
     ELSE IF tasks[u] = <<>> THEN <<>>
     ELSE [tasks[u] EXCEPT ![1].solo = FALSE]]

Request(role, message, content, data, t) ==
  [role |-> role, threadId |-> RequestThreadId, message |-> message,
   content |-> content, data |-> data, task |-> t]

\* ------------------------------------------------------- the input store
\* input is a writable store the application sets.
SetInput(v) ==
  /\ v # input
  /\ input' = v
  /\ lastEvent' = NoEvent
  /\ UNCHANGED <<messages, threadId, status, error, onToolCall,
                 threadIdParam, tasks, requests, nanoCount, ncalls, partsRead,
                 toolLog, partsLimit, pvars>>

\* ------------------------------------------------------------ submitMessage
\* mutant: the test of the input is missing; the empty text is appended
\* and sent like any other
SubmitMessageEmpty_Sends ==
  /\ CanCall
  /\ input = ""
  /\ ncalls' = ncalls + 1
  /\ status' = "in_progress"
  /\ messages' = Append(messages, [id |-> "", role |-> "user", content |-> "",
                                   data |-> Undefined, tool_calls |-> <<>>])
  /\ requests' = Append(requests,
        [role |-> "user", threadId |-> "null", message |-> "",
         content |-> Undefined, data |-> Undefined, task |-> FreeTask])
  /\ lastEvent' = [part |-> [type |-> "none"], task |-> FreeTask, depth |-> 1,
                   done |-> "noop", thrown |-> NoError]
  /\ UNCHANGED <<input, threadId, error, onToolCall, threadIdParam, tasks,
                 nanoCount, partsRead, toolLog, partsLimit, pvars>>

\* inputValue === '': return
SubmitMessageEmpty ==
  /\ CanCall
  /\ input = ""
  /\ ncalls' = ncalls + 1
  /\ lastEvent' = Event(NoPart, FreeTask, 1, "noop", NoError)
  /\ UNCHANGED <<messages, input, threadId, status, error, onToolCall,
                 threadIdParam, tasks, requests, nanoCount, partsRead,
                 toolLog, partsLimit, pvars>>

\* mutant: a new submit clears the error of the round trip before
SubmitMessage_ClearsError(data) ==
  /\ CanCall
  /\ input # ""
  /\ ncalls' = ncalls + 1
  /\ status' = "in_progress"
  /\ error' = NoError
  /\ messages' = Append(messages, Message("", "user", input, data, <<>>))
  /\ input' = ""
  /\ requests' = Append(requests,
                        Request("user", input, Undefined, data, FreeTask))
  /\ tasks' = Started("submitMessage")
  /\ lastEvent' = NoEvent
  /\ UNCHANGED <<threadId, onToolCall, threadIdParam, nanoCount,
                 partsRead, toolLog, partsLimit, pvars>>

SubmitMessage(data) ==
  /\ CanCall
  /\ input # ""
  /\ ncalls' = ncalls + 1
  /\ status' = "in_progress"
  /\ messages' = Append(messages, Message("", "user", input, data, <<>>))
  /\ input' = ""
  /\ requests' = Append(requests,
                        Request("user", input, Undefined, data, FreeTask))
  /\ tasks' = Started("submitMessage")
  /\ lastEvent' = NoEvent
  /\ UNCHANGED <<threadId, error, onToolCall, threadIdParam, nanoCount,
                 partsRead, toolLog, partsLimit, pvars>>

\* ---------------------------------------------------------- submitToolOutput
ToolOutputMessage(payload, data) ==
  Message(Nanoid(nanoCount + 1), "tool", Stringify(payload), data, <<>>)

\* mutant: the tool-output message is not appended to the history
SubmitToolOutput_NoAppend(payload, data) ==
  /\ CanCall
  /\ ncalls' = ncalls + 1
  /\ status' = "in_progress"
  /\ requests' = Append(requests,
                        Request("tool", Undefined, Stringify(payload), data,
                                FreeTask))
  /\ tasks' = Started("submitToolOutput")
  /\ lastEvent' = NoEvent
  /\ UNCHANGED <<messages, nanoCount, input, threadId, error, onToolCall,
                 threadIdParam, partsRead, toolLog, partsLimit, pvars>>

SubmitToolOutput(payload, data) ==
  /\ CanCall
  /\ ncalls' = ncalls + 1
  /\ status' = "in_progress"
  /\ messages' = Append(messages, ToolOutputMessage(payload, data))
  /\ nanoCount' = nanoCount + 1
  /\ requests' = Append(requests,
                        Request("tool", Undefined, Stringify(payload), data,
                                FreeTask))
  /\ tasks' = Started("submitToolOutput")
  /\ lastEvent' = NoEvent
  /\ UNCHANGED <<input, threadId, error, onToolCall, threadIdParam,
                 partsRead, toolLog, partsLimit, pvars>>

\* ------------------------------------------------- handleIncomingResponse
\* fetch resolves with a response that has a body.
FetchBody(t) ==
  /\ At(t, "fetch")
  /\ tasks' = [tasks EXCEPT ![t] = ReplaceTop(@, [Top(t) EXCEPT !.pc = "loop"])]
  /\ lastEvent' = NoEvent
  /\ UNCHANGED <<messages, input, threadId, status, error, onToolCall,
                 threadIdParam, requests, nanoCount, ncalls, partsRead,
                 toolLog, partsLimit, pvars>>

\* fetch resolves with a response whose body is null.
FetchEmptyBody(t) ==
  /\ At(t, "fetch")
  /\ Throw(t, [type |-> "empty_body"], EmptyBodyError)
  /\ UNCHANGED <<messages, input, threadId, status, onToolCall,
                 threadIdParam, requests, nanoCount, ncalls, partsRead,
                 toolLog, partsLimit, pvars>>

\* fetch rejects: `await fetch(...)` has no handler, so the submit call
\* rejects with the network error before handleIncomingResponse is called.
FetchReject(t) ==
  /\ At(t, "fetch")
  /\ Throw(t, [type |-> "fetch_rejected"], NetworkError)
  /\ UNCHANGED <<messages, input, threadId, status, onToolCall,
                 threadIdParam, requests, nanoCount, ncalls, partsRead,
                 toolLog, partsLimit, pvars>>

CanRead(t) == At(t, "loop") /\ partsRead < partsLimit

AssistantPart(id, content) ==
  [type |-> "assistant_message", id |-> id, content |-> content]

OnAssistantMessage(t, id, content) ==
  /\ CanRead(t)
  /\ partsRead' = partsRead + 1
  /\ IF Len(content) = 0
     THEN \* content[0].text throws inside the updater; the catch throws
          /\ Fail(t, AssistantPart(id, content), ContentTypeError)
          /\ messages' = messages
     ELSE /\ messages' = Append(messages,
                 Message(id, "assistant", content[1], Undefined, <<>>))
          /\ lastEvent' = Event(AssistantPart(id, content), t, Depth(t),
                                "none", NoError)
          /\ tasks' = AfterRead(t, AssistantPart(id, content), Len(messages) + 1)
          /\ UNCHANGED <<error, status>>
  /\ UNCHANGED <<input, threadId, onToolCall, threadIdParam,
                 requests, nanoCount, ncalls, toolLog, partsLimit, pvars>>

DataPart(id, data) == [type |-> "data_message", id |-> id, data |-> data]

OnDataMessage(t, id, data) ==
  /\ CanRead(t)
  /\ partsRead' = partsRead + 1
  /\ lastEvent' = Event(DataPart(id, data), t, Depth(t), "none", NoError)
  /\ tasks' = AfterRead(t, DataPart(id, data), Len(messages) + 1)
  /\ messages' = Append(messages,
        Message(IF id = Undefined THEN "" ELSE id, "data", "", data, <<>>))
  /\ UNCHANGED <<input, threadId, status, error, onToolCall, threadIdParam,
                 requests, nanoCount, ncalls, toolLog, partsLimit, pvars>>

ControlPart(th, mid) ==
  [type |-> "assistant_control_data", threadId |-> th, messageId |-> mid]

\* mutant: the part binds the thread and leaves the history alone
OnControlData_NoBackFill(t, th, mid) ==
  /\ CanRead(t)
  /\ partsRead' = partsRead + 1
  /\ threadId' = BindThreadId(threadId, th)
  /\ lastEvent' = Event(ControlPart(th, mid), t, Depth(t), "none", NoError)
  /\ tasks' = AfterRead(t, ControlPart(th, mid), Len(messages))
  /\ UNCHANGED <<messages, error, status, input, onToolCall, threadIdParam,
                 requests, nanoCount, ncalls, toolLog, partsLimit, pvars>>

OnControlData(t, th, mid) ==
  /\ CanRead(t)
  /\ partsRead' = partsRead + 1
  /\ threadId' = BindThreadId(threadId, th)
  /\ IF Len(messages) = 0
     THEN \* lastMessage is undefined; the catch throws
          /\ Fail(t, ControlPart(th, mid), LastMessageTypeError)
          /\ messages' = messages
     ELSE /\ messages' = BackFill(messages, mid)
          /\ lastEvent' = Event(ControlPart(th, mid), t, Depth(t), "none",
                                NoError)
          /\ tasks' = AfterRead(t, ControlPart(th, mid), Len(messages))
          /\ UNCHANGED <<error, status>>
  /\ UNCHANGED <<input, onToolCall, threadIdParam, requests,
                 nanoCount, ncalls, toolLog, partsLimit, pvars>>

ErrorPart(v) == [type |-> "error", value |-> v]

\* mutant: the error case leaves the loop and the call ends
OnErrorPart_Halts(t, v) ==
  /\ CanRead(t)
  /\ partsRead' = partsRead + 1
  /\ error' = StringValue(v)
  /\ status' = "awaiting_message"
  /\ tasks' = [tasks EXCEPT ![t] = ReturnedStack(@)]
  /\ lastEvent' = Event(ErrorPart(v), t, Depth(t),
                        IF Depth(t) = 1 THEN "returned" ELSE "nested_returned",
                        NoError)
  /\ UNCHANGED <<messages, input, threadId, onToolCall,
                 threadIdParam, requests, nanoCount, ncalls, toolLog,
                 partsLimit, pvars>>

OnErrorPart(t, v) ==
  /\ CanRead(t)
  /\ partsRead' = partsRead + 1
  /\ lastEvent' = Event(ErrorPart(v), t, Depth(t), "none", NoError)
  /\ error' = StringValue(v)
  /\ tasks' = AfterRead(t, ErrorPart(v), Len(messages))
  /\ UNCHANGED <<messages, input, threadId, status, onToolCall,
                 threadIdParam, requests, nanoCount, ncalls, toolLog,
                 partsLimit, pvars>>

\* The iteration itself rejects (a line the decoder cannot parse): control
\* reaches the catch block of handleIncomingResponse.
OnDecodeFailure(t) ==
  /\ At(t, "loop")
  /\ Fail(t, [type |-> "failure"], DecodeError)
  /\ UNCHANGED <<messages, input, threadId, onToolCall,
                 threadIdParam, requests, nanoCount, ncalls, partsRead,
                 toolLog, partsLimit, pvars>>

\* The decoded sequence is exhausted.
OnEnd(t) ==
  /\ At(t, "loop")
  /\ Return(t)
  /\ UNCHANGED <<messages, input, threadId, error, onToolCall,
                 threadIdParam, requests, nanoCount, ncalls, partsRead,
                 toolLog, partsLimit, pvars>>

\* ------------------------------------------------------ tool_calls case
\* toolCallOutputs of Promise.all: one {tool_call_id, output} per call
ToolCallOutputs(tcs, outs) ==
  [i \in 1..Len(tcs) |-> [tool_call_id |-> tcs[i].id, output |-> outs[i]]]

\* the message added "for transparency of tool calls"
ToolMessage(tcs) == Message("", "tool", "", Undefined, tcs)

ToolPart(tcs) == [type |-> "tool_calls", tool_calls |-> tcs]

\* the threadId of the last ControlData part among the processed parts ps
BoundBy(ps) ==
  LET cs == {j \in 1..Len(ps) : ps[j].part.type = "assistant_control_data"}
  IN IF cs = {} THEN Undefined
     ELSE ps[CHOOSE j \in cs : \A k \in cs : k <= j].part.threadId

\* One entry of toolLog: the tool_calls part, what became of it ("pending",
\* "submitted" or "error"), whether one of its handler invocations
\* rejected, the positions of the request issued and of the tool-output
\* message appended for it (0: none) and of its transparency message.
\* thread is the threadId of the last ControlData part that the response
\* holding the tool_calls part delivered before it (Undefined: none).
ToolEntry(t, tcs, outcome) ==
  [task |-> t, calls |-> tcs, outcome |-> outcome, failed |-> FALSE,
   request |-> 0, output |-> 0, message |-> Len(messages) + 1,
   thread |-> BoundBy(Top(t).parts)]

\* onToolCall == undefined: record the error and go on with the next part.
OnToolCallsNoHandler(t, tcs) ==
  /\ CanRead(t)
  /\ ~onToolCall
  /\ partsRead' = partsRead + 1
  /\ lastEvent' = Event(ToolPart(tcs), t, Depth(t), "none", NoError)
  /\ messages' = Append(messages, ToolMessage(tcs))
  /\ error' = StringValue(NoHandlerText(tcs))
  /\ toolLog' = Append(toolLog, ToolEntry(t, tcs, "error"))
  /\ tasks' = AfterRead(t, ToolPart(tcs), Len(messages) + 1)
  /\ UNCHANGED <<input, threadId, status, onToolCall, threadIdParam,
                 requests, nanoCount, ncalls, partsLimit, pvars>>

\* onToolCall defined: every handler is invoked; await Promise.all.
OnToolCalls(t, tcs) ==
  /\ CanRead(t)
  /\ onToolCall
  /\ Depth(t) < MaxDepth
  /\ partsRead' = partsRead + 1
  /\ lastEvent' = Event(ToolPart(tcs), t, Depth(t), "none", NoError)
  /\ messages' = Append(messages, ToolMessage(tcs))
  /\ toolLog' = Append(toolLog, ToolEntry(t, tcs, Pending))
  /\ tasks' = [tasks EXCEPT ![t] = ReplaceTop(@,
                 [Top(t) EXCEPT !.pc = "handlers", !.calls = tcs,
                                !.outs = [i \in 1..Len(tcs) |-> Pending],
                                !.tool = Len(toolLog) + 1,
                                !.parts = Append(@, Seen(ToolPart(tcs),
                                                         Len(messages) + 1))])]
  /\ UNCHANGED <<input, threadId, status, error, onToolCall, threadIdParam,
                 requests, nanoCount, ncalls, partsLimit, pvars>>

AllSettled(outs) == \A i \in 1..Len(outs) : outs[i] # Pending

\* mutant: submitToolOutput(toolCallOutputs) is called without await, so
\* the loop of the outer response goes on while the nested call runs
HandlerFulfil_NoAwait(t, i, out) ==
  /\ At(t, "handlers")
  /\ i \in 1..Len(Top(t).outs)
  /\ Top(t).outs[i] = Pending
  /\ lastEvent' = NoEvent
  /\ LET outs == [Top(t).outs EXCEPT ![i] = out]
         payload == ToolCallOutputs(Top(t).calls, outs)
     IN IF AllSettled(outs)
        THEN /\ status' = "in_progress"
             /\ messages' = Append(messages, ToolOutputMessage(payload, Undefined))
             /\ nanoCount' = nanoCount + 1
             /\ requests' = Append(requests,
                   Request("tool", Undefined, Stringify(payload), Undefined, t))
             /\ toolLog' = [toolLog EXCEPT ![Top(t).tool].outcome = "submitted",
                                           ![Top(t).tool].request = Len(requests) + 1,
                                           ![Top(t).tool].output = Len(messages) + 1]
             /\ tasks' = [tasks EXCEPT ![t] =
                   Append(ReplaceTop(@, [Top(t) EXCEPT !.pc = "loop",
                                                       !.outs = outs]),
                          Frame("submitToolOutput", Len(messages) + 1, FALSE))]
        ELSE /\ tasks' = [tasks EXCEPT ![t] =
                   ReplaceTop(@, [Top(t) EXCEPT !.outs = outs])]
             /\ UNCHANGED <<status, messages, nanoCount, requests, toolLog>>
  /\ UNCHANGED <<input, threadId, error, onToolCall, threadIdParam, ncalls,
                 partsRead, partsLimit, pvars>>

\* One handler invocation fulfils.  When it is the last one, Promise.all
\* fulfils and submitToolOutput(toolCallOutputs) runs up to its fetch.
HandlerFulfil(t, i, out) ==
  /\ At(t, "handlers")
  /\ i \in 1..Len(Top(t).outs)
  /\ Top(t).outs[i] = Pending
  /\ lastEvent' = NoEvent
  /\ LET outs == [Top(t).outs EXCEPT ![i] = out]
         payload == ToolCallOutputs(Top(t).calls, outs)
     IN IF AllSettled(outs)
        THEN /\ status' = "in_progress"
             /\ messages' = Append(messages, ToolOutputMessage(payload, Undefined))
             /\ nanoCount' = nanoCount + 1
             /\ requests' = Append(requests,
                   Request("tool", Undefined, Stringify(payload), Undefined, t))
             /\ toolLog' = [toolLog EXCEPT ![Top(t).tool].outcome = "submitted",
                                           ![Top(t).tool].request = Len(requests) + 1,
                                           ![Top(t).tool].output = Len(messages) + 1]
             /\ tasks' = [tasks EXCEPT ![t] =
                   Append(ReplaceTop(@, [Top(t) EXCEPT !.pc = "await_submit",
                                                       !.outs = outs]),
                          Frame("submitToolOutput", Len(messages) + 1, FALSE))]
        ELSE /\ tasks' = [tasks EXCEPT ![t] =
                   ReplaceTop(@, [Top(t) EXCEPT !.outs = outs])]
             /\ UNCHANGED <<status, messages, nanoCount, requests, toolLog>>
  /\ UNCHANGED <<input, threadId, error, onToolCall, threadIdParam, ncalls,
                 partsRead, partsLimit, pvars>>

\* mutant: the rejection of Promise.all is swallowed by an empty catch
\* block
HandlerReject_Dropped(t, i, nullish) ==
  /\ At(t, "handlers")
  /\ i \in 1..Len(Top(t).outs)
  /\ Top(t).outs[i] = Pending
  /\ lastEvent' = Event(NoPart, t, Depth(t), "handler_rejected",
                        RejectionReason(Top(t).calls[i].name, nullish))
  /\ toolLog' = [toolLog EXCEPT ![Top(t).tool].failed = TRUE]
  /\ tasks' = [tasks EXCEPT ![t] =
                 ReplaceTop(@, [Top(t) EXCEPT !.pc = "loop"])]
  /\ UNCHANGED <<messages, input, threadId, status, error, onToolCall,
                 threadIdParam, requests, nanoCount, ncalls, partsRead, partsLimit, pvars>>

\* One handler invocation rejects: Promise.all rejects with its reason,
\* `catch (err) { error.set(err); }` runs, and the loop goes on.  The other
\* invocations are no longer awaited by anything.
HandlerReject(t, i, nullish) ==
  /\ At(t, "handlers")
  /\ i \in 1..Len(Top(t).outs)
  /\ Top(t).outs[i] = Pending
  /\ lastEvent' = Event(NoPart, t, Depth(t), "handler_rejected",
                        RejectionReason(Top(t).calls[i].name, nullish))
  /\ error' = ToolCatch(error, RejectionReason(Top(t).calls[i].name, nullish))
  /\ toolLog' = [toolLog EXCEPT ![Top(t).tool].outcome = "error",
                                ![Top(t).tool].failed = TRUE]
  /\ tasks' = [tasks EXCEPT ![t] =
                 ReplaceTop(@, [Top(t) EXCEPT !.pc = "loop"])]
  /\ UNCHANGED <<messages, input, threadId, status, onToolCall,
                 threadIdParam, requests, nanoCount, ncalls, partsRead, partsLimit, pvars>>

\* ------------------------------------------- experimental_AssistantResponse
\* controller.close(): a stream whose queue is empty closes at once, one
\* that still holds chunks stays readable and closes when the last chunk
\* has been read.
StateAfterClose(queue) == IF queue = <<>> THEN "closed" ELSE "readable"

\* The rejection of start() errors a stream that is still readable; a
\* stream that has closed already stays closed.
StateAfterStartRejects(state) ==
  IF state = "readable" THEN "errored" ELSE state

\* mutant: the control data is not enqueued before the callback runs
ProducerStart_NoControl(th, mid) ==
  /\ ppc = "new"
  /\ psettings' = [threadId |-> th, messageId |-> mid]
  /\ ppc' = "process"
  /\ UNCHANGED <<pstream, pqueue, pread, pstate, pcloses, pthrown,
                 pcancelled, psent, pfailure, cvars>>

\* start(controller) up to `await process(...)`: the control data is
\* enqueued first.
ProducerStart(th, mid) ==
  /\ ppc = "new"
  /\ psettings' = [threadId |-> th, messageId |-> mid]
  /\ pstream' = Append(pstream,
        FormatStreamPart("assistant_control_data", ControlJson(th, mid)))
  /\ pqueue' = Append(pqueue,
        FormatStreamPart("assistant_control_data", ControlJson(th, mid)))
  /\ ppc' = "process"
  /\ UNCHANGED <<pread, pstate, pcloses, pthrown, pcancelled, psent,
                 pfailure, cvars>>

\* controller.enqueue(textEncoder.encode(formatStreamPart(type, value))),
\* called through a send handle.  The handles are closures over the
\* controller and stay callable once process(...) has settled.  The chunk
\* is queued, or the call throws into its caller when the stream is no
\* longer readable or close() has been called.
Enqueue(type, json) ==
  /\ ppc # "new"
  /\ Len(psent) + Len(pthrown) < MaxSends
  /\ IF pstate = "readable" /\ pcloses = 0
     THEN /\ pstream' = Append(pstream, FormatStreamPart(type, json))
          /\ pqueue' = Append(pqueue, FormatStreamPart(type, json))
          /\ psent' = Append(psent, [type |-> type, json |-> json])
          /\ UNCHANGED pthrown
     ELSE /\ pthrown' = Append(pthrown, "enqueue")
          /\ UNCHANGED <<pstream, pqueue, psent>>
  /\ UNCHANGED <<pread, pstate, ppc, pcloses, pcancelled, pfailure,
                 psettings, cvars>>

SendMessage(json) == Enqueue("assistant_message", json)

SendDataMessage(json) == Enqueue("data_message", json)

SendToolCallMessage(json) == Enqueue("tool_calls", json)

\* The reader of response.body receives the next chunk; the stream closes
\* with the last chunk when close() has been called.
ConsumerRead ==
  /\ pstate = "readable"
  /\ pqueue # <<>>
  /\ pread' = Append(pread, Head(pqueue))
  /\ pqueue' = Tail(pqueue)
  /\ pstate' = IF pcloses > 0 THEN StateAfterClose(Tail(pqueue)) ELSE pstate
  /\ UNCHANGED <<pstream, ppc, pcloses, pthrown, pcancelled, psent,
                 pfailure, psettings, cvars>>

\* The reader cancels the stream (the cancel() hook does nothing): the
\* stream closes and the chunks not yet read are dropped.
ConsumerCancel ==
  /\ ppc # "new"
  /\ pstate = "readable"
  /\ pstate' = "closed"
  /\ pqueue' = <<>>
  /\ pcancelled' = TRUE
  /\ UNCHANGED <<pstream, pread, ppc, pcloses, pthrown, psent, pfailure,
                 psettings, cvars>>

\* process(...) fulfils: the finally block closes the controller.  On a
\* stream the reader has cancelled close() throws and start() rejects.
ProcessFulfil ==
  /\ ppc = "process"
  /\ pcloses' = pcloses + 1
  /\ IF pstate = "readable"
     THEN /\ pstate' = StateAfterClose(pqueue)
          /\ ppc' = "done"
          /\ UNCHANGED pthrown
     ELSE /\ pthrown' = Append(pthrown, "close")
          /\ ppc' = "rejected"
          /\ UNCHANGED pstate
  /\ UNCHANGED <<pstream, pqueue, pread, pcancelled, psent, pfailure,
                 psettings, cvars>>

\* process(...) rejects: the catch block runs, then the finally block
\* closes the controller.  The catch block throws for a null or undefined
\* reason, and sendError and close() throw on a stream the reader has
\* cancelled; start() then rejects, and that rejection is handled in a
\* later step.
ProcessReject(reason) ==
  /\ ppc = "process"
  /\ reason = ControllerClosed => pthrown # <<>>
  /\ pfailure' = reason
  /\ pcloses' = pcloses + 1
  /\ IF pstate = "readable"
     THEN /\ pstream' = AfterCatch(pstream, reason)
          /\ pqueue' = AfterCatch(pqueue, reason)
          /\ pstate' = StateAfterClose(pqueue')
          /\ ppc' = IF reason.nullish THEN "rejected" ELSE "done"
          /\ UNCHANGED pthrown
     ELSE /\ pthrown' = pthrown \o
               (IF reason.nullish THEN <<>> ELSE <<"enqueue">>) \o <<"close">>
          /\ ppc' = "rejected"
          /\ UNCHANGED <<pstream, pqueue, pstate>>
  /\ UNCHANGED <<pread, pcancelled, psent, psettings, cvars>>

\* The rejection of start() is handled: the stream is errored and its
\* queue discarded, unless the stream has closed in the meantime.
StartRejectionHandled ==
  /\ ppc = "rejected"
  /\ pstate' = StateAfterStartRejects(pstate)
  /\ pqueue' = IF pstate = "readable" THEN <<>> ELSE pqueue
  /\ ppc' = "done"
  /\ UNCHANGED <<pstream, pread, pcloses, pthrown, pcancelled, psent,
                 pfailure, psettings, cvars>>

ProducerNext ==
  \/ \E th \in ThreadIds, mid \in MessageIds : ProducerStart(th, mid)
  \/ \E j \in AssistantJsons : SendMessage(j)
  \/ \E j \in DataJsons : SendDataMessage(j)
  \/ \E j \in ToolCallJsons : SendToolCallMessage(j)
  \/ ConsumerRead
  \/ ConsumerCancel
  \/ ProcessFulfil
  \/ \E r \in RejectReasons : ProcessReject(r)
  \/ StartRejectionHandled

ProducerSpec == Init /\ [][ProducerNext]_vars

\* ------------------------------------------------------------------- Next
Next ==
  \/ \E v \in Inputs : SetInput(v)
  \/ SubmitMessageEmpty
  \/ \E d \in RequestData : SubmitMessage(d)
  \/ \E p \in Payloads, d \in RequestData : SubmitToolOutput(p, d)
  \/ \E t \in TaskIds : FetchBody(t)
  \/ \E t \in TaskIds : FetchEmptyBody(t)
  \/ \E t \in TaskIds : FetchReject(t)
  \/ \E t \in TaskIds, id \in AssistantIds, c \in Contents : OnAssistantMessage(t, id, c)
  \/ \E t \in TaskIds, id \in DataIds, d \in DataValues : OnDataMessage(t, id, d)
  \/ \E t \in TaskIds, c \in ToolCallLists : OnToolCallsNoHandler(t, c)
  \/ \E t \in TaskIds, c \in ToolCallLists : OnToolCalls(t, c)
  \/ \E t \in TaskIds, i \in 1..2, o \in Outputs : HandlerFulfil(t, i, o)
  \/ \E t \in TaskIds, i \in 1..2, n \in BOOLEAN : HandlerReject(t, i, n)
  \/ \E t \in TaskIds, th \in ThreadIds, m \in MessageIds : OnControlData(t, th, m)
  \/ \E t \in TaskIds, v \in ErrorTexts : OnErrorPart(t, v)
  \/ \E t \in TaskIds : OnDecodeFailure(t)
  \/ \E t \in TaskIds : OnEnd(t)

Spec == Init /\ [][Next]_vars

\* Runs of tool round trips: a handler is configured, no threadId option
\* is given, only submitMessage is called from outside, every handler
\* fulfils and the responses hold well-formed parts only.
ToolInit ==
  /\ Constructed
  /\ onToolCall = TRUE
  /\ threadIdParam = Undefined
  /\ partsLimit = MaxToolParts

ToolNext ==
  \/ \E v \in Inputs : SetInput(v)
  \/ \E d \in RequestData : SubmitMessage(d)
  \/ \E t \in TaskIds : FetchBody(t)
  \/ \E t \in TaskIds : FetchEmptyBody(t)
  \/ \E t \in TaskIds : FetchReject(t)
  \/ \E t \in TaskIds, id \in AssistantIds : OnAssistantMessage(t, id, <<"hi", "yo">>)
  \/ \E t \in TaskIds, c \in ToolCallLists : OnToolCalls(t, c)
  \/ \E t \in TaskIds, i \in 1..2, o \in Outputs : HandlerFulfil(t, i, o)
  \/ \E t \in TaskIds, th \in ThreadIds, m \in MessageIds : OnControlData(t, th, m)
  \/ \E t \in TaskIds : OnEnd(t)

ToolSpec == ToolInit /\ [][ToolNext]_vars

\* Every request settles and every handler invocation settles.
FetchSettle(t) == FetchBody(t) \/ FetchEmptyBody(t) \/ FetchReject(t)
HandlerSettle(t) ==
  \E i \in 1..2 : \/ \E o \in Outputs : HandlerFulfil(t, i, o)
                  \/ \E n \in BOOLEAN : HandlerReject(t, i, n)

\* (checked for the hook built without a threadId option)
FairInit == Init /\ threadIdParam = Undefined

FairSpec ==
  /\ FairInit
  /\ [][Next]_vars
  /\ \A t \in TaskIds : WF_vars(FetchSettle(t)) /\ WF_vars(HandlerSettle(t))

TypeOK ==
  /\ status \in {"awaiting_message", "in_progress"}
  /\ input \in Inputs
  /\ threadId \in ThreadIds \cup {Undefined}
  /\ partsRead \in 0..partsLimit
  /\ ncalls \in 0..MaxCalls
  /\ \A t \in TaskIds : Depth(t) <= MaxDepth

\* ======================================================= properties
\* s contains sub as a contiguous substring
Contains(str, sub) ==
  \E i \in 1..Len(str) :
    i + Len(sub) - 1 <= Len(str) /\ SubSeq(str, i, i + Len(sub) - 1) = sub

CallEnded == lastEvent.done \in {"returned", "threw", "nested_returned", "caught"}
CallFailed == lastEvent.done \in {"threw", "caught"}

\* C1: whenever a call of submitMessage (non-empty input) or of
\* submitToolOutput has completed or failed, status is awaiting_message.
\* (Stated as the claim; the code violates it.)
C1_StatusIdleAfterSubmit ==
  CallEnded => status = "awaiting_message"

\* C2: a failure raised by iterating the decoded sequence is stored in the
\* error slot and the enclosing submit call completes without raising.
\* (Stated as the claim; the code violates it.)
C2_IterationFailureAbsorbed ==
  lastEvent.part.type = "failure" =>
    /\ error = DecodeError
    /\ ~CallFailed

\* C3 (as claimed): in any submit, also the orchestrator's, a response
\* without body raises EmptyResponseBody to the caller of the submit and
\* leaves the error slot unchanged.
C3_Original_EmptyBodyNeverRecorded ==
  [][lastEvent'.part.type = "empty_body" =>
       /\ CallFailed'
       /\ lastEvent'.thrown = EmptyBodyError
       /\ error' = error]_vars

\* C3 (amended): a response without body makes the submit call reject with
\* EmptyResponseBody; a top-level call rejects to its caller and leaves the
\* error slot unchanged, the orchestrator's call rejects to the
\* orchestrator, which stores the failure in the error slot.
C3_EmptyBodyRaised ==
  [][lastEvent'.part.type = "empty_body" =>
       /\ lastEvent'.thrown = EmptyBodyError
       /\ lastEvent'.depth = 1 => (lastEvent'.done = "threw" /\ error' = error)
       /\ lastEvent'.depth > 1 =>
            (lastEvent'.done = "caught" /\ error' = EmptyBodyError)]_vars

C3_Witness ==
  /\ lastEvent.part.type = "empty_body"
  /\ lastEvent.depth > 1
  /\ error = EmptyBodyError

\* C4 (as claimed): once threadId is bound, no step changes it.
C4_Original_ThreadIdWriteOnce ==
  [][threadId # Undefined => threadId' = threadId]_vars

\* C4 (amended): processing a ControlData part binds threadId to that
\* part's threadId, whatever was bound before (the last part wins).
C4_ThreadIdLastWins ==
  lastEvent.part.type = "assistant_control_data" =>
    threadId = lastEvent.part.threadId

\* a request was issued on thread t1, then a ControlData part bound t2
C4_Witness ==
  /\ lastEvent.part.type = "assistant_control_data"
  /\ lastEvent.part.threadId = "t2"
  /\ threadId = "t2"
  /\ \E i \in 1..Len(requests) : requests[i].threadId = "t1"

\* C5: history is append-only except for id back-fill: a step never
\* shortens the history nor moves or changes a message in it, except that
\* processing a ControlData part may replace the id of the message that is
\* last at that moment by the part's messageId.
C5_AppendOnlyExceptBackFill ==
  [][/\ Len(messages') >= Len(messages)
     /\ \A i \in 1..Len(messages) :
          \/ messages'[i] = messages[i]
          \/ /\ i = Len(messages)
             /\ lastEvent'.part.type = "assistant_control_data"
             /\ messages'[i] = [messages[i] EXCEPT !.id = lastEvent'.part.messageId]]_vars

\* a ControlData part back-filled the id of a message that is no longer last
C5_Witness ==
  /\ Len(messages) >= 2
  /\ messages[1].role = "user"
  /\ messages[1].id = "m1"
  /\ messages[1].content = "hi"

\* C6: if a handler invocation of a ToolCallsMessage rejects, no
\* submitToolOutput request is issued and no tool-output message is
\* appended for that message, and the failure is stored in the error slot.
C6_AllOrNothing ==
  [][/\ \A k \in 1..Len(toolLog') :
          toolLog'[k].failed =>
            /\ toolLog'[k].request = 0
            /\ toolLog'[k].output = 0
            /\ toolLog'[k].outcome = "error"
     /\ lastEvent'.done = "handler_rejected" =>
          /\ error' = lastEvent'.thrown
          /\ requests' = requests
          /\ messages' = messages]_vars

\* the second of two handler invocations rejected after the first fulfilled
C6_Witness ==
  /\ lastEvent.done = "handler_rejected"
  /\ lastEvent.thrown = HandlerError("sum")
  /\ Depth(lastEvent.task) > 0
  /\ Len(Top(lastEvent.task).outs) = 2
  /\ Top(lastEvent.task).outs[1] # Pending
  /\ toolLog[Top(lastEvent.task).tool].failed

\* C7: a ToolCallsMessage processed without a configured handler sets the
\* error slot to a value naming every requested function, and no request
\* is issued for it: the step issues none and leaves nothing awaited that
\* could issue one.
C7_NoHandlerNamesAll ==
  [][(lastEvent'.part.type = "tool_calls" /\ ~onToolCall) =>
       /\ error'.kind = "string"
       /\ \A i \in 1..Len(lastEvent'.part.tool_calls) :
            Contains(error'.text, lastEvent'.part.tool_calls[i].name)
       /\ requests' = requests
       /\ \A u \in TaskIds :
            /\ Len(tasks'[u]) = Len(tasks[u])
            /\ \A d \in 1..Len(tasks[u]) : tasks'[u][d].pc = tasks[u][d].pc
       /\ toolLog'[Len(toolLog')].request = 0]_vars

C7_Witness ==
  /\ lastEvent.part.type = "tool_calls"
  /\ ~onToolCall
  /\ Len(lastEvent.part.tool_calls) = 2
  /\ Contains(error.text, "lookup, sum")

\* C8: every ToolCallsMessage part the consumer processes eventually
\* resolves: a submitToolOutput request carrying the collected outputs is
\* issued for it, or the error slot is written for it.
ToolResolved(k) ==
  /\ k <= Len(toolLog)
  /\ \/ /\ toolLog[k].outcome = "submitted"
        /\ toolLog[k].request \in 1..Len(requests)
        /\ requests[toolLog[k].request].role = "tool"
        /\ requests[toolLog[k].request].content =
             Stringify(ToolCallOutputs(toolLog[k].calls,
                                       [i \in 1..Len(toolLog[k].calls) |-> "r"]))
     \/ toolLog[k].outcome = "error"

C8_ToolCallsResolve ==
  \A k \in 1..MaxParts : (k <= Len(toolLog)) ~> ToolResolved(k)

\* a ToolCallsMessage was pending and its outputs were then submitted
C8_Witness ==
  /\ Len(toolLog) >= 1
  /\ toolLog[1].outcome = "submitted"
  /\ Len(toolLog[1].calls) = 2
  /\ ToolResolved(1)

\* C9: the first event on the producer's stream is the ControlData event
\* carrying {threadId, messageId}; it is there before the callback runs,
\* and the events the callback sends follow it in call order.  What the
\* reader has received is a prefix of that sequence, and the whole of it
\* together with the queue as long as the stream is neither errored nor
\* cancelled; a send throws only on a stream the reader has cancelled or
\* once the callback has settled and close() has been called.
ControlLine ==
  FormatStreamPart("assistant_control_data",
                   ControlJson(psettings.threadId, psettings.messageId))

C9_ControlDataFirst ==
  /\ ppc = "new" => (pstream = <<>> /\ psent = <<>> /\ pread = <<>>)
  /\ ppc # "new" =>
       /\ Len(pstream) >= Len(psent) + 1
       /\ pstream[1] = ControlLine
       /\ \A i \in 1..Len(psent) :
            pstream[i + 1] = FormatStreamPart(psent[i].type, psent[i].json)
  /\ Len(pread) <= Len(pstream)
  /\ \A i \in 1..Len(pread) : pread[i] = pstream[i]
  /\ (pstate # "errored" /\ ~pcancelled) => pread \o pqueue = pstream
  /\ pthrown # <<>> => (pcancelled \/ (ppc \in {"rejected", "done"} /\ pcloses = 1))

C9_Witness ==
  /\ ppc = "done"
  /\ Len(psent) = 2
  /\ psent[1].type = "tool_calls"
  /\ psent[2].type = "assistant_message"
  /\ psettings.threadId = "t2"
  /\ Len(pread) = 3
  /\ pread[1] = ControlLine
  /\ pstate = "closed"

\* C10: the producer closes its stream exactly once: close() is not called
\* while the callback runs; once the callback has settled (fulfilled,
\* rejected, with or without events sent) close() has been called once,
\* never twice, and the stream ends closed: it is closed as soon as its
\* chunks have been read, and it is never errored.  (Stated as the claim;
\* the code violates it.)
C10_ClosedExactlyOnce ==
  /\ pcloses <= 1
  /\ ppc \in {"new", "process"} =>
       /\ pcloses = 0
       /\ ~pcancelled => pstate = "readable"
  /\ ppc \in {"rejected", "done"} =>
       /\ pcloses = 1
       /\ pstate # "errored"
       /\ pqueue = <<>> => pstate = "closed"

\* C11: if the producer's callback fails, exactly one Error event carrying
\* the failure's message text is on the stream, after every event the
\* callback sent and at the close; if the callback succeeds there is no
\* Error event.  The stream is one the reader has not cancelled.  (Stated
\* as the claim; the code violates it.)
ErrorLines ==
  {i \in 1..Len(pstream) : SubSeq(pstream[i], 1, 6) = "error:"}

C11_OneErrorEventOnFailure ==
  (ppc \in {"rejected", "done"} /\ ~pcancelled) =>
    IF pfailure = NoReason THEN ErrorLines = {}
    ELSE /\ ErrorLines = {Len(pstream)}
         /\ Len(pstream) = Len(psent) + 2
         /\ pstream[Len(pstream)] =
              FormatStreamPart("error", StringJson(
                IF pfailure.message # Undefined THEN pfailure.message
                ELSE pfailure.str))
         /\ pcloses = 1

\* A top-level submitMessage call whose response has so far delivered a
\* ControlData part and then an AssistantMessage part, and nothing else.
ControlThenAssistant(t) ==
  /\ Depth(t) = 1
  /\ tasks[t][1].op = "submitMessage"
  /\ Len(tasks[t][1].parts) = 2
  /\ tasks[t][1].parts[1].part.type = "assistant_control_data"
  /\ tasks[t][1].parts[2].part.type = "assistant_message"

\* C12 (as claimed): after submitMessage has processed a response whose
\* first two parts are ControlData {threadId: t, messageId: m} and an
\* AssistantMessage part, threadId is t and the message appended for the
\* AssistantMessage part has id m.
C12_Original_AssistantMessageIdBackFilled ==
  \A t \in TaskIds :
    ControlThenAssistant(t) =>
      /\ threadId = tasks[t][1].parts[1].part.threadId
      /\ messages[tasks[t][1].parts[2].at].id =
           tasks[t][1].parts[1].part.messageId

\* C12 (amended): after a submitMessage call that runs with no other call
\* in flight has processed ControlData {threadId: t, messageId: m} and then
\* an AssistantMessage part, threadId is t, the user message that call
\* appended has id m, and the message appended for the AssistantMessage
\* part has the part's own id.
C12_UserMessageIdBackFilled ==
  \A t \in TaskIds :
    (ControlThenAssistant(t) /\ tasks[t][1].solo) =>
      LET f == tasks[t][1]
      IN /\ threadId = f.parts[1].part.threadId
         /\ messages[f.own].role = "user"
         /\ messages[f.own].id = f.parts[1].part.messageId
         /\ f.parts[2].at = Len(messages)
         /\ messages[f.parts[2].at].role = "assistant"
         /\ messages[f.parts[2].at].id = f.parts[2].part.id

\* the second of two calls, made after the first had ended
C12_Witness ==
  \E t \in TaskIds :
    /\ ControlThenAssistant(t)
    /\ tasks[t][1].solo
    /\ tasks[t][1].own = 2
    /\ threadId = "t2"
    /\ messages[2].id = "m1"
    /\ messages[3].id = "a1"

\* the role of the message appended for a part ("": none is appended)
RoleOf(type) ==
  CASE type = "assistant_message" -> "assistant"
    [] type = "data_message" -> "data"
    [] type = "tool_calls" -> "tool"
    [] OTHER -> ""

\* C13: an Error part does not halt consumption: processing it sets the
\* error slot to its payload and leaves the call waiting for the next
\* part, and every later part of that response is processed in order:
\* its message is appended behind the earlier ones, its control data is
\* bound.
C13_ErrorPartDoesNotHalt ==
  /\ lastEvent.part.type = "error" =>
       /\ error = StringValue(lastEvent.part.value)
       /\ lastEvent.done = "none"
       /\ At(lastEvent.task, "loop")
  /\ \A t \in TaskIds : \A d \in 1..Depth(t) :
       LET ps == tasks[t][d].parts
       IN \A j \in 1..Len(ps) : \A k \in 1..Len(ps) :
            (ps[j].part.type = "error" /\ j < k) =>
              /\ ps[j].at <= ps[k].at
              /\ RoleOf(ps[k].part.type) # "" =>
                   /\ ps[j].at < ps[k].at
                   /\ messages[ps[k].at].role = RoleOf(ps[k].part.type)
              /\ (ps[k].part.type = "assistant_control_data"
                    /\ lastEvent.part = ps[k].part /\ lastEvent.task = t) =>
                   threadId = ps[k].part.threadId

\* an Error part, then a ControlData part of the same response
C13_Witness ==
  \E t \in TaskIds :
    /\ Depth(t) = 1
    /\ Len(tasks[t][1].parts) = 2
    /\ tasks[t][1].parts[1].part = ErrorPart("e1")
    /\ tasks[t][1].parts[2].part = ControlPart("t2", "m1")
    /\ error = StringValue("e1")
    /\ threadId = "t2"
    /\ messages[tasks[t][1].own].id = "m1"

\* C14: submitMessage with an empty input text is a no-op: status,
\* history, threadId, error and input are unchanged, no request is issued
\* and no call is left in flight.
C14_EmptySubmitIsNoOp ==
  [][lastEvent'.done = "noop" =>
       /\ input = ""
       /\ UNCHANGED <<status, messages, threadId, error, input, requests,
                      tasks, nanoCount>>]_vars

\* an empty submit while an earlier call is in progress
C14_Witness ==
  /\ lastEvent.done = "noop"
  /\ status = "in_progress"
  /\ input = ""
  /\ Len(messages) = 1
  /\ Len(requests) = 1
  /\ error # NoError

\* C15: every request carries threadId = the threadId option if given,
\* else the threadId bound when it is issued, else null; and with no
\* option given, the tool-output request the orchestrator issues for a
\* ToolCallsMessage carries the threadId bound by the ControlData part of
\* the response that held that ToolCallsMessage.  (Stated as the claim;
\* the code violates the second part.)
C15_RequestCarriesThread ==
  [][/\ Len(requests') > Len(requests) =>
          requests'[Len(requests')].threadId =
            IF threadIdParam # Undefined THEN threadIdParam
            ELSE IF threadId # Undefined THEN threadId
            ELSE "null"
     /\ \A k \in 1..Len(toolLog') :
          (/\ toolLog'[k].outcome = "submitted"
           /\ threadIdParam = Undefined
           /\ toolLog'[k].thread # Undefined) =>
            requests'[toolLog'[k].request].threadId = toolLog'[k].thread]_vars

\* the first part of C15 alone
C15_FirstPart ==
  [][Len(requests') > Len(requests) =>
          requests'[Len(requests')].threadId =
            IF threadIdParam # Undefined THEN threadIdParam
            ELSE IF threadId # Undefined THEN threadId
            ELSE "null"]_vars

\* C16: within one top-level submitMessage call (no other call in flight),
\* status is in_progress from the start of the call until the decoded
\* sequence of its own response is exhausted, also while the parts behind
\* a ToolCallsMessage are processed after the nested round trip has ended.
\* (Stated as the claim; the code violates it.)
C16_InProgressUntilExhausted ==
  \A t \in TaskIds :
    (Depth(t) >= 1 /\ tasks[t][1].op = "submitMessage" /\ tasks[t][1].solo) =>
      status = "in_progress"

\* the entry of toolLog of the tool_calls part whose transparency message
\* is at place at of the history
EntryAt(at) == CHOOSE k \in 1..Len(toolLog) : toolLog[k].message = at

\* C17: tool round trips are depth-first.  While a nested tool-output
\* round trip runs, the call that issued it waits and processes no part;
\* for every ToolCallsMessage whose outputs were submitted and that is
\* followed by further parts of its response, the history holds in order
\* the transparency message, the tool-output message, the messages of the
\* nested response (up to the place where the nested call ended), and only
\* then the messages of the remaining parts of the outer response.
C17_DepthFirst ==
  \A t \in TaskIds : \A d \in 1..Depth(t) :
    LET f == tasks[t][d]
        ps == f.parts
    IN /\ d < Depth(t) =>
            /\ f.pc = "await_submit"
            /\ ps[Len(ps)].part.type = "tool_calls"
            /\ ps[Len(ps)].resumed = 0
            /\ tasks[t][d + 1].own = toolLog[EntryAt(ps[Len(ps)].at)].output
            /\ tasks[t][d + 1].own > ps[Len(ps)].at
            /\ \A j \in 1..Len(tasks[t][d + 1].parts) :
                 tasks[t][d + 1].parts[j].at >= tasks[t][d + 1].own
       /\ \A j \in 1..Len(ps) :
            (/\ ps[j].part.type = "tool_calls"
             /\ j < Len(ps)
             /\ toolLog[EntryAt(ps[j].at)].outcome = "submitted") =>
              LET e == toolLog[EntryAt(ps[j].at)]
              IN /\ messages[ps[j].at].role = "tool"
                 /\ messages[ps[j].at].tool_calls = ps[j].part.tool_calls
                 /\ ps[j].at < e.output
                 /\ messages[e.output].role = "tool"
                 /\ messages[e.output].content # ""
                 /\ e.output <= ps[j].resumed
                 /\ \A k \in (j + 1)..Len(ps) :
                      /\ ps[k].at >= ps[j].resumed
                      /\ RoleOf(ps[k].part.type) # "" => ps[k].at > ps[j].resumed

\* user message, transparency message, tool-output message, the message of
\* the nested response, the message of the next part of the outer response
C17_Witness ==
  \E t \in TaskIds :
    /\ Depth(t) = 1
    /\ Len(tasks[t][1].parts) = 2
    /\ tasks[t][1].parts[1].part.type = "tool_calls"
    /\ tasks[t][1].parts[1].resumed = 4
    /\ tasks[t][1].parts[2].at = 5
    /\ Len(messages) = 5
    /\ messages[2].tool_calls # <<>>
    /\ messages[3].role = "tool"
    /\ messages[3].content # ""
    /\ messages[4].role = "assistant"
    /\ messages[5].role = "assistant"

\* C18: whenever a ControlData part is processed the history is not
\* empty, so the back-fill has a message to write to and the part is
\* processed without failure; every call in flight has appended its
\* message before its response is read.
C18_BackFillHasTarget ==
  /\ \A t \in TaskIds : \A d \in 1..Depth(t) :
       /\ tasks[t][d].own \in 1..Len(messages)
       /\ messages[tasks[t][d].own].role \in {"user", "tool"}
  /\ lastEvent.part.type = "assistant_control_data" =>
       /\ Len(messages) >= 1
       /\ lastEvent.done = "none"

\* the first part of the response to a top-level submitToolOutput call,
\* made on an empty history, is a ControlData part
C18_Witness ==
  \E t \in TaskIds :
    /\ Depth(t) = 1
    /\ tasks[t][1].op = "submitToolOutput"
    /\ Len(tasks[t][1].parts) = 1
    /\ lastEvent.part = ControlPart("t1", "m1")
    /\ lastEvent.task = t
    /\ Len(messages) = 1
    /\ messages[1].id = "m1"
    /\ messages[1].role = "tool"

\* C19 (as claimed): with a second submitMessage issued while an earlier
\* one is in progress, the ControlData part that opens a response
\* back-fills the id of the user message appended by the submitMessage
\* call that issued that response's request, never a message of the other
\* call.
C19_Original_BackFillsOwnMessage ==
  (/\ lastEvent.part.type = "assistant_control_data"
   /\ lastEvent.done = "none"
   /\ lastEvent.depth = 1
   /\ \A u \in TaskIds : Depth(u) >= 1 /\ tasks[u][1].op = "submitMessage"
   /\ Len(tasks[lastEvent.task][1].parts) = 1) =>
     /\ messages[tasks[lastEvent.task][1].own].id = lastEvent.part.messageId
     /\ \A i \in 1..Len(messages) :
          (i # tasks[lastEvent.task][1].own /\ messages[i].role = "user") =>
            messages[i].id = ""

\* C19 (amended): the ControlData part of a response back-fills the id of
\* the message that is last in the history when the part is processed,
\* whichever call appended it; the message appended by the call that
\* issued the response's request is left as it is when it is not the last.
C19_BackFillsLastMessage ==
  [][(lastEvent'.part.type = "assistant_control_data"
       /\ lastEvent'.done = "none") =>
       LET own == tasks[lastEvent'.task][lastEvent'.depth].own
       IN /\ Len(messages') = Len(messages)
          /\ messages'[Len(messages)] =
               [messages[Len(messages)] EXCEPT !.id = lastEvent'.part.messageId]
          /\ own # Len(messages) => messages'[own] = messages[own]]_vars

\* two submitMessage calls in flight; the ControlData part of the first
\* call's response back-filled the user message of the second call
C19_Witness ==
  /\ lastEvent.part.type = "assistant_control_data"
  /\ lastEvent.task = 1
  /\ Depth(1) = 1
  /\ Depth(2) = 1
  /\ tasks[1][1].op = "submitMessage"
  /\ tasks[2][1].op = "submitMessage"
  /\ tasks[1][1].own = 1
  /\ tasks[2][1].own = 2
  /\ Len(tasks[1][1].parts) = 1
  /\ Len(messages) = 2
  /\ messages[1].id = ""
  /\ messages[2].id = "m1"

\* C20 (as claimed): the error slot is never cleared: once it holds a
\* value, no step resets it to undefined.
C20_Original_ErrorNeverCleared ==
  [][error # NoError => error' # NoError]_vars

\* C20 (amended): no submit call and no decoded part clears the error
\* slot; the one step after which a written slot holds undefined again is
\* the orchestrator storing the reason of a handler invocation that
\* rejected with undefined.  A later submit and a later successful round
\* trip leave the slot as it is.
C20_ErrorKeptExceptNullishReason ==
  [][/\ (error # NoError /\ error' = NoError) =>
          /\ lastEvent'.done = "handler_rejected"
          /\ lastEvent'.thrown = NoError
     /\ (Len(requests') > Len(requests)
           \/ lastEvent'.done \in {"returned", "nested_returned", "noop"}) =>
          error' = error]_vars

\* an Error part in the first round trip; the second call has returned
\* and the slot still holds the payload
C20_Witness ==
  /\ ncalls = 2
  /\ Len(requests) = 2
  /\ requests[2].role = "user"
  /\ lastEvent.done = "returned"
  /\ lastEvent.task = 1
  /\ \A t \in TaskIds : Depth(t) = 0
  /\ error = StringValue("e1")

====
